---- MODULE Spec2Model ----
(***************************************************************************)
(* A model of GitHubAPI (src/Content/Github_API_usage.py): the three       *)
(* operations search_repositories, list_commits and get_content, and the   *)
(* rate-limit handler _handle_rate_limit they share.                       *)
(*                                                                         *)
(* One call is in progress at a time (the client is sequential).  Every    *)
(* requests.get is one step; the log records, in order, every request with *)
(* its response, every sleep and a raised exception.                       *)
(*                                                                         *)
(* The server is a function from page numbers to answers (a 200 page with  *)
(* n items, a 404, or a 403 that is not a rate limit).  It is discovered   *)
(* as pages are requested.  On top of it a request may be throttled: it is *)
(* then answered by a 403 with X-RateLimit-Remaining: 0, whatever the      *)
(* server holds for that page.  Items are opaque to the client; item i of  *)
(* page p is the pair <<p, i>>.                                            *)
(***************************************************************************)
EXTENDS Integers, Sequences, FiniteSets, TLC

VARIABLES pc, op, per_page, max_repos, page, total_pages, all_results,
          result, server, log, headers, base_url

vars == <<pc, op, per_page, max_repos, page, total_pages, all_results,
          result, server, log, headers, base_url>>

---------------------------------------------------------------------------
(* Bounds of the model *)

\* highest page number the server is asked for
MaxPage == 3
\* most items the server puts in one page
MaxPageLen == 2
\* largest per_page a caller passes (smallest is 1)
MaxPerPage == 2
\* largest max_repos a caller passes (smallest is 0)
MaxRepos == 3
\* largest total_count the search endpoint reports: enough for MaxPage pages
MaxTotal == MaxPage

---------------------------------------------------------------------------
(* Values of the program *)

\* a header or JSON field that the response does not carry
NoHeader == -1
\* time.time() when the response is handled, in epoch seconds
Now == 100
\* X-RateLimit-Reset values: 5 s ahead, or 3 s in the past
ResetAhead == Now + 5
ResetPast == Now - 3
\* the delay parameter of search_repositories (default 1.0)
delay == 1

Min(a, b) == IF a <= b THEN a ELSE b

\* math.ceil(a / b) for b >= 1, a any integer
Ceil(a, b) == IF a % b = 0 THEN a \div b ELSE (a \div b) + 1

---------------------------------------------------------------------------
(* The server *)

\* what the server holds for a page
PageKinds ==
    [status : {200}, remaining : {NoHeader}, n : 0..MaxPageLen]
        \cup [status : {404}, remaining : {NoHeader}, n : {0}]
        \cup [status : {403}, remaining : {NoHeader, 1}, n : {0}]

\* a page no request has reached yet
Unknown == [status |-> 0, remaining |-> NoHeader, n |-> 0]

\* throttling of one request: none, or a 403 with remaining quota 0 and the
\* given X-RateLimit-Reset header (NoHeader: the header is absent)
Throttles == {"none", "reset_absent", "reset_ahead", "reset_past"}

ResetOf(thr) ==
    CASE thr = "reset_ahead" -> ResetAhead
      [] thr = "reset_past" -> ResetPast
      [] OTHER -> NoHeader

\* the items of page p when it holds n of them
PageItems(p, n) == [i \in 1..n |-> <<p, i>>]

\* the response to a request for page p that the server answers with kind k,
\* under throttling thr
Response(p, k, total, thr) ==
    IF thr # "none"
    THEN [status |-> 403, remaining |-> 0, reset |-> ResetOf(thr),
          total |-> NoHeader, data |-> <<>>]
    ELSE [status |-> k.status, remaining |-> k.remaining,
          reset |-> IF k.remaining = NoHeader THEN NoHeader ELSE ResetAhead,
          total |-> IF k.status = 200 THEN total ELSE NoHeader,
          data |-> IF k.status = 200 THEN PageItems(p, k.n) ELSE <<>>]

NoResp == [status |-> 0, remaining |-> NoHeader, reset |-> NoHeader,
           total |-> NoHeader, data |-> <<>>]

\* the answers the server can give for page p: the one already seen, or any
KindsAt(p) ==
    IF server.pages[p] = Unknown THEN PageKinds ELSE {server.pages[p]}

\* the total_count the search endpoint can report
TotalsNow ==
    IF server.known THEN {server.total} ELSE {NoHeader} \cup (0..MaxTotal)

Learn(p, k, total) ==
    [known |-> TRUE, total |-> total,
     pages |-> [server.pages EXCEPT ![p] = k]]

NoServer == [known |-> FALSE, total |-> NoHeader,
             pages |-> [p \in 1..MaxPage |-> Unknown]]

---------------------------------------------------------------------------
(* The client *)

\* the personal access tokens a client is built with
Tokens == {"tokenA", "tokenB"}

\* lines 16-19: self.headers
HeadersFor(token) ==
    [Authorization |-> <<"Bearer", token>>,
     Accept |-> "application/vnd.github+json"]

\* line 15: self.base_url
BaseUrl == "https://api.github.com"

\* an event that is no request carries no headers and no URL
NoHeaders == [Authorization |-> <<"", "">>, Accept |-> ""]
NoUrl == ""

\* a slip: the request is sent without the Authorization header's token
SentHeadersAnonymous == [headers EXCEPT !.Authorization = <<"Bearer", "">>]

\* headers=self.headers: the headers a request carries
SentHeaders == headers

\* f"{self.base_url}/...": the base of the URL a request goes to
SentUrl == base_url

---------------------------------------------------------------------------
(* The log *)

GetEvent(p, resp) ==
    [ev |-> "get", page |-> p, resp |-> resp, secs |-> 0,
     headers |-> SentHeaders, url |-> SentUrl]
SleepEvent(why, secs) ==
    [ev |-> why, page |-> 0, resp |-> NoResp, secs |-> secs,
     headers |-> NoHeaders, url |-> NoUrl]
RaiseEvent ==
    [ev |-> "raise", page |-> 0, resp |-> NoResp, secs |-> 0,
     headers |-> NoHeaders, url |-> NoUrl]

---------------------------------------------------------------------------
(* _handle_rate_limit *)

\* line 28 and line 32: the response is a rate limit
Throttled(resp) ==
    /\ resp.status = 403
    /\ resp.remaining # NoHeader
    /\ resp.remaining = 0

\* lines 30-31: reset_time - int(time.time())
WaitTime(resp) ==
    (IF resp.reset = NoHeader THEN Now ELSE resp.reset) - Now

\* time.sleep raises ValueError for a negative argument
SleepRaises(secs) == secs < 0

\* the events _handle_rate_limit adds to the log
HandleRateLimit(resp) ==
    IF Throttled(resp)
    THEN IF SleepRaises(WaitTime(resp) + 1)
         THEN <<RaiseEvent>>
         ELSE <<SleepEvent("rate_sleep", WaitTime(resp) + 1)>>
    ELSE <<>>

\* _handle_rate_limit ends in an exception
HandlerRaises(resp) == Throttled(resp) /\ SleepRaises(WaitTime(resp) + 1)

---------------------------------------------------------------------------
(* Results *)

Pending == [kind |-> "pending", val |-> <<>>]
ListResult(s) == [kind |-> "list", val |-> s]
JsonResult(d) == [kind |-> "json", val |-> d]
NoneResult == [kind |-> "None", val |-> <<>>]

\* a slip: the new page's items are put in front
ExtendInFront(all, items) == items \o all

\* all_results.extend(items)
Extend(all, items) == all \o items

\* a slip: the final slice is forgotten
TruncateForgotten(all, n) == all

\* all_results[:max_repos], max_repos >= 0
Truncate(all, n) == SubSeq(all, 1, Min(n, Len(all)))

\* response.json()
Json(resp) == resp.data

---------------------------------------------------------------------------
(* The state *)

\* pc: the statement the running call has reached; op: the running call;
\* per_page, max_repos, page, total_pages, all_results: the parameters and
\* locals of that call; result: what it returned; server: what the server
\* was seen to hold; log: the requests and sleeps of the call; headers and
\* base_url: the fields of the client
TypeOK ==
    /\ pc \in {"idle", "search_first", "search_loop", "commits_loop",
               "content", "done", "raised"}
    /\ op \in {"none", "search", "commits", "content"}
    /\ per_page \in 1..MaxPerPage
    /\ max_repos \in 0..MaxRepos
    /\ page \in 1..(MaxPage + 1)
    /\ total_pages \in 0..MaxPage
    /\ Len(all_results) <= MaxPage * MaxPageLen
    /\ result.kind \in {"pending", "list", "json", "None"}
    /\ server.known \in BOOLEAN
    /\ \A p \in 1..MaxPage : server.pages[p] \in PageKinds \cup {Unknown}
    /\ \A i \in 1..Len(log) :
          log[i].ev \in {"get", "rate_sleep", "delay_sleep", "raise"}
    /\ headers \in {HeadersFor(t) : t \in Tokens}
    /\ base_url = BaseUrl

Init ==
    /\ pc = "idle"
    /\ op = "none"
    /\ per_page = 1
    /\ max_repos = 0
    /\ page = 1
    /\ total_pages = 0
    /\ all_results = <<>>
    /\ result = Pending
    /\ server = NoServer
    /\ log = <<>>
    /\ \E token \in Tokens : headers = HeadersFor(token)
    /\ base_url = BaseUrl

---------------------------------------------------------------------------
(* search_repositories *)

\* the call: lines 37-57
CallSearch ==
    /\ pc = "idle"
    /\ \E pp \in 1..MaxPerPage, mr \in 0..MaxRepos :
          /\ per_page' = pp
          /\ max_repos' = mr
    /\ pc' = "search_first"
    /\ op' = "search"
    /\ page' = 1
    /\ total_pages' = 0
    /\ all_results' = <<>>
    /\ result' = Pending
    /\ server' = NoServer
    /\ log' = <<>>
    /\ UNCHANGED <<headers, base_url>>

\* line 69: data.get("total_count", 0)
TotalCount(resp) == IF resp.total = NoHeader THEN 0 ELSE resp.total

\* a slip: the page count is taken from max_repos alone
TotalPagesFromMax(total_count, mr, pp) == Ceil(mr, pp)

\* a slip: the page count is taken from total_count alone
TotalPagesFromTotal(total_count, mr, pp) == Ceil(total_count, pp)

\* line 70
TotalPages(total_count, mr, pp) == Ceil(Min(total_count, mr), pp)

\* the first request: lines 58-73
SearchFirst ==
    /\ pc = "search_first"
    /\ \E k \in KindsAt(1), t \in TotalsNow, thr \in Throttles :
         LET resp == Response(1, k, t, thr) IN
         /\ server' = Learn(1, k, t)
         /\ IF resp.status # 200
            THEN /\ log' = log \o <<GetEvent(1, resp)>>
                             \o (IF resp.status = 403
                                 THEN HandleRateLimit(resp) ELSE <<>>)
                 /\ IF resp.status = 403 /\ HandlerRaises(resp)
                    THEN /\ pc' = "raised"
                         /\ result' = result
                    ELSE /\ pc' = "done"
                         /\ result' = ListResult(<<>>)
                 /\ UNCHANGED <<total_pages, all_results, page>>
            ELSE /\ log' = log \o <<GetEvent(1, resp)>>
                 /\ total_pages' = TotalPages(TotalCount(resp), max_repos, per_page)
                 /\ all_results' = Extend(all_results, Json(resp))
                 /\ page' = 2
                 /\ pc' = "search_loop"
                 /\ result' = result
    /\ UNCHANGED <<op, per_page, max_repos, headers, base_url>>

\* a slip: the loop stops only once more than max_repos items are aggregated
EnoughReposWhenOver(all, mr) == Len(all) > mr

\* line 77: the loop stops once max_repos items are aggregated
EnoughRepos(all, mr) == Len(all) >= mr

\* a slip: an error status skips the page instead of ending the loop
SearchOutcomeSkipsErrors(status) ==
    IF status = 200 THEN "extend" ELSE "continue"

\* lines 83-90: what a response does to the loop
SearchOutcome(status) ==
    CASE status = 200 -> "extend"
      [] status = 403 -> "continue"
      [] OTHER -> "break"

\* one iteration of the loop over pages 2..total_pages: lines 76-96
SearchPage ==
    /\ pc = "search_loop"
    /\ page <= total_pages
    /\ ~EnoughRepos(all_results, max_repos)
    /\ \E k \in KindsAt(page), thr \in Throttles :
         LET resp == Response(page, k, server.total, thr)
             out == SearchOutcome(resp.status) IN
         /\ server' = Learn(page, k, server.total)
         /\ CASE out = "extend" ->
                   /\ all_results' = Extend(all_results, Json(resp))
                   /\ log' = log \o <<GetEvent(page, resp),
                                      SleepEvent("delay_sleep", delay)>>
                   /\ page' = page + 1
                   /\ pc' = "search_loop"
                   /\ result' = result
              [] out = "continue" ->
                   /\ log' = log \o <<GetEvent(page, resp)>>
                                 \o HandleRateLimit(resp)
                   /\ IF HandlerRaises(resp)
                      THEN pc' = "raised" /\ page' = page
                      ELSE pc' = "search_loop" /\ page' = page + 1
                   /\ UNCHANGED <<all_results, result>>
              [] out = "break" ->
                   /\ log' = log \o <<GetEvent(page, resp)>>
                   /\ pc' = "done"
                   /\ result' = ListResult(Truncate(all_results, max_repos))
                   /\ UNCHANGED <<all_results, page>>
    /\ UNCHANGED <<op, per_page, max_repos, total_pages, headers, base_url>>

\* the loop ends (range exhausted, or line 77-78) and line 98 returns
SearchReturn ==
    /\ pc = "search_loop"
    /\ \/ page > total_pages
       \/ EnoughRepos(all_results, max_repos)
    /\ pc' = "done"
    /\ result' = ListResult(Truncate(all_results, max_repos))
    /\ UNCHANGED <<op, per_page, max_repos, page, total_pages, all_results,
                   server, log, headers, base_url>>

---------------------------------------------------------------------------
(* list_commits *)

\* the call: lines 100-110
CallCommits ==
    /\ pc = "idle"
    /\ \E pp \in 1..MaxPerPage : per_page' = pp
    /\ pc' = "commits_loop"
    /\ op' = "commits"
    /\ max_repos' = 0
    /\ page' = 1
    /\ total_pages' = 0
    /\ all_results' = <<>>
    /\ result' = Pending
    /\ server' = NoServer
    /\ log' = <<>>
    /\ UNCHANGED <<headers, base_url>>

\* a slip: only an empty page ends the listing
LastPageWhenEmpty(data, pp) == Len(data) = 0

\* line 124: the page is the last one
LastPage(data, pp) == Len(data) < pp

\* a slip: the page counter advances by two
NextPageSkipsOne(p) == p + 2

\* line 126: page += 1
NextPage(p) == p + 1

\* one iteration of the while loop: lines 112-131
CommitsPage ==
    /\ pc = "commits_loop"
    /\ page <= MaxPage
    /\ \E k \in KindsAt(page), thr \in Throttles :
         LET resp == Response(page, k, NoHeader, thr) IN
         /\ server' = Learn(page, k, NoHeader)
         /\ log' = log \o <<GetEvent(page, resp)>> \o HandleRateLimit(resp)
         /\ IF HandlerRaises(resp)
            THEN /\ pc' = "raised"
                 /\ UNCHANGED <<all_results, page, result>>
            ELSE IF resp.status = 200
            THEN /\ all_results' = Extend(all_results, Json(resp))
                 /\ IF LastPage(Json(resp), per_page)
                    THEN /\ pc' = "done"
                         /\ result' = ListResult(all_results')
                         /\ page' = page
                    ELSE /\ pc' = "commits_loop"
                         /\ result' = result
                         /\ page' = NextPage(page)
            ELSE /\ pc' = "done"
                 /\ result' = ListResult(all_results)
                 /\ UNCHANGED <<all_results, page>>
    /\ UNCHANGED <<op, per_page, max_repos, total_pages, headers, base_url>>

\* the model follows list_commits up to page MaxPage and leaves the call there
BeyondBound ==
    /\ pc = "commits_loop"
    /\ page > MaxPage
    /\ pc' = "idle"
    /\ op' = "none"
    /\ per_page' = 1
    /\ max_repos' = 0
    /\ page' = 1
    /\ total_pages' = 0
    /\ all_results' = <<>>
    /\ result' = Pending
    /\ server' = NoServer
    /\ log' = <<>>
    /\ UNCHANGED <<headers, base_url>>

---------------------------------------------------------------------------
(* get_content *)

\* the call: lines 133-142
CallContent ==
    /\ pc = "idle"
    /\ pc' = "content"
    /\ op' = "content"
    /\ per_page' = 1
    /\ max_repos' = 0
    /\ page' = 1
    /\ total_pages' = 0
    /\ all_results' = <<>>
    /\ result' = Pending
    /\ server' = NoServer
    /\ log' = <<>>
    /\ UNCHANGED <<headers, base_url>>

\* the request and the return: lines 143-150
ContentGet ==
    /\ pc = "content"
    /\ \E k \in KindsAt(1), thr \in Throttles :
         LET resp == Response(1, k, NoHeader, thr) IN
         /\ server' = Learn(1, k, NoHeader)
         /\ log' = log \o <<GetEvent(1, resp)>> \o HandleRateLimit(resp)
         /\ IF HandlerRaises(resp)
            THEN /\ pc' = "raised"
                 /\ result' = result
            ELSE /\ pc' = "done"
                 /\ result' = IF resp.status = 200
                              THEN JsonResult(Json(resp))
                              ELSE NoneResult
    /\ UNCHANGED <<op, per_page, max_repos, page, total_pages, all_results,
                   headers, base_url>>

---------------------------------------------------------------------------
\* the caller takes the result (or the exception) and the client is idle again
Finish ==
    /\ pc \in {"done", "raised"}
    /\ pc' = "idle"
    /\ op' = "none"
    /\ per_page' = 1
    /\ max_repos' = 0
    /\ page' = 1
    /\ total_pages' = 0
    /\ all_results' = <<>>
    /\ result' = Pending
    /\ server' = NoServer
    /\ log' = <<>>
    /\ UNCHANGED <<headers, base_url>>

Next ==
    \/ CallSearch
    \/ SearchFirst
    \/ SearchPage
    \/ SearchReturn
    \/ CallCommits
    \/ CommitsPage
    \/ BeyondBound
    \/ CallContent
    \/ ContentGet
    \/ Finish

Spec == Init /\ [][Next]_vars

---------------------------------------------------------------------------
(* Reading the log *)

IsGet(e) == e.ev = "get"

\* the requests of the call, in the order they were issued
Gets == SelectSeq(log, IsGet)

\* the positions of the log that hold a request
GetAt == {i \in 1..Len(log) : IsGet(log[i])}

\* the first request after position i, or 0
NextGet(i) ==
    IF \E j \in GetAt : j > i
    THEN CHOOSE j \in GetAt : j > i /\ \A m \in GetAt : m > i => j <= m
    ELSE 0

RECURSIVE ItemsOf(_)
\* the items of the status-200 responses of a sequence of requests, in order
ItemsOf(gs) ==
    IF gs = <<>> THEN <<>>
    ELSE (IF Head(gs).resp.status = 200 THEN Head(gs).resp.data ELSE <<>>)
            \o ItemsOf(Tail(gs))

\* the first n elements of s
FirstN(s, n) == [i \in 1..(IF n <= Len(s) THEN n ELSE Len(s)) |-> s[i]]

\* item a comes before item b on the server: an earlier page, or the same
\* page and an earlier place
Before(a, b) == a[1] < b[1] \/ (a[1] = b[1] /\ a[2] < b[2])

Returned == pc = "done"
Paged == op \in {"search", "commits"}

---------------------------------------------------------------------------
(* C1 *)

\* C1: the list search_repositories returns is never longer than max_repos,
\* whatever the responses were.
C1_SearchAtMostMax ==
    (op = "search" /\ Returned) =>
        (result.kind = "list" /\ Len(result.val) <= max_repos)

\* the pages fetched hold more than max_repos items and the result was cut
C1_Witness ==
    /\ op = "search" /\ Returned
    /\ Len(all_results) > max_repos
    /\ max_repos > 0
    /\ Len(result.val) = max_repos

---------------------------------------------------------------------------
(* C2 *)

\* C2: the list returned by search_repositories and list_commits is the
\* concatenation, in request order, of the items of the status-200 pages
\* (for search, its first max_repos elements); so the items come in server
\* order, page N before page N+1, none twice.
C2_ResultIsConcatenation ==
    (Paged /\ Returned) =>
        /\ result.kind = "list"
        /\ result.val = IF op = "search"
                        THEN FirstN(ItemsOf(Gets), max_repos)
                        ELSE ItemsOf(Gets)
        /\ \A i, j \in 1..Len(result.val) :
              i < j => Before(result.val[i], result.val[j])

\* a result made of the items of two pages, the first holding two items
C2_Witness ==
    /\ Paged /\ Returned
    /\ Len(result.val) >= 3
    /\ result.val[1][1] = 1 /\ result.val[2][1] = 1
    /\ result.val[3][1] = 2

---------------------------------------------------------------------------
(* C3 *)

\* C3: in search_repositories a request for page p answered by a rate limit
\* (403, X-RateLimit-Remaining: 0) is followed by a request for page p again.
C3_SearchRetriesSamePage ==
    op = "search" =>
        \A i \in GetAt :
            Throttled(log[i].resp) =>
                /\ NextGet(i) # 0 => log[NextGet(i)].page = log[i].page
                /\ Returned => NextGet(i) # 0

---------------------------------------------------------------------------
(* C4 *)

\* C4: in list_commits a request for page p answered by a rate limit is
\* followed by a new request for page p; the listing does not end there.
C4_CommitsRetriesSamePage ==
    (op = "commits" /\ Returned) =>
        \A i \in GetAt :
            Throttled(log[i].resp) =>
                /\ NextGet(i) # 0
                /\ log[NextGet(i)].page = log[i].page

---------------------------------------------------------------------------
(* C5 *)

\* The run of the same call against the same server when no request is
\* throttled.  The server is known only at the pages that were requested:
\* det says that the run asks for known pages only, val is what it returns.
Undetermined == [det |-> FALSE, val |-> <<>>]
Determined(s) == [det |-> TRUE, val |-> s]

KnownPage(p) == p \in 1..MaxPage /\ server.pages[p] # Unknown

RECURSIVE QuietCommits(_, _)
QuietCommits(p, all) ==
    IF ~KnownPage(p) THEN Undetermined
    ELSE LET resp == Response(p, server.pages[p], NoHeader, "none") IN
         IF resp.status = 200
         THEN IF LastPage(Json(resp), per_page)
              THEN Determined(Extend(all, Json(resp)))
              ELSE QuietCommits(p + 1, Extend(all, Json(resp)))
         ELSE Determined(all)

RECURSIVE QuietSearchFrom(_, _, _)
QuietSearchFrom(p, tp, all) ==
    IF p > tp \/ EnoughRepos(all, max_repos)
    THEN Determined(Truncate(all, max_repos))
    ELSE IF ~KnownPage(p) THEN Undetermined
    ELSE LET resp == Response(p, server.pages[p], server.total, "none")
             out == SearchOutcome(resp.status) IN
         CASE out = "extend" -> QuietSearchFrom(p + 1, tp, Extend(all, Json(resp)))
           [] out = "continue" -> QuietSearchFrom(p + 1, tp, all)
           [] out = "break" -> Determined(Truncate(all, max_repos))

QuietSearch ==
    IF ~KnownPage(1) THEN Undetermined
    ELSE LET resp == Response(1, server.pages[1], server.total, "none") IN
         IF resp.status # 200 THEN Determined(<<>>)
         ELSE QuietSearchFrom(2,
                  TotalPages(TotalCount(resp), max_repos, per_page),
                  Extend(<<>>, Json(resp)))

QuietRun == IF op = "search" THEN QuietSearch ELSE QuietCommits(1, <<>>)

\* a request of the call was answered by a rate limit
SomeThrottled == \E i \in GetAt : Throttled(log[i].resp)

\* C5: a rate limit met during search_repositories or list_commits does not
\* show in the result: the list returned equals the list the call returns
\* against the same server when no request is throttled.
C5_RateLimitInvisible ==
    (Paged /\ Returned /\ QuietRun.det) => result.val = QuietRun.val

\* without a rate limit the call is the unthrottled run
QuietRunIsTheRun ==
    (Paged /\ Returned /\ ~SomeThrottled) =>
        (QuietRun.det /\ result.val = QuietRun.val)

---------------------------------------------------------------------------
(* C6 *)

\* the requests issued before position i of the log
GetsBefore(i) == SelectSeq(SubSeq(log, 1, i - 1), IsGet)

\* the call ended on the request at position i of the log: nothing was
\* requested after it, no exception was raised, and the list returned holds
\* the items of the pages fetched before it
StoppedAt(i) ==
    /\ i = Len(log)
    /\ Returned
    /\ result = ListResult(ItemsOf(GetsBefore(i)))

\* C6: in search_repositories and list_commits a response whose status is
\* neither 200 nor 403 ends the pagination at once: no later request, no
\* exception, and the items of the pages fetched before it are returned.
C6_ErrorStopsPagination ==
    Paged =>
        \A i \in GetAt :
            log[i].resp.status \notin {200, 403} => StoppedAt(i)

\* a search of three pages: page 1 was fetched, page 2 answered 404, and
\* page 1's items came back
C6_Witness ==
    /\ op = "search" /\ Returned
    /\ total_pages = 3
    /\ log[Len(log)].ev = "get"
    /\ log[Len(log)].resp.status = 404
    /\ log[Len(log)].page = 2
    /\ Len(result.val) >= 1

---------------------------------------------------------------------------
(* C7 *)

\* C7: in search_repositories and list_commits a 403 that is not a rate
\* limit (no X-RateLimit-Remaining, or a value other than 0) ends the
\* pagination like any other error.
C7_Plain403StopsPagination ==
    Paged =>
        \A i \in GetAt :
            (log[i].resp.status = 403 /\ ~Throttled(log[i].resp))
                => /\ \A j \in GetAt : j <= i
                   /\ pc # "raised"
                   /\ Returned => result = ListResult(ItemsOf(GetsBefore(i)))

---------------------------------------------------------------------------
(* C8 *)

Finished == pc \in {"done", "raised"}

\* C8: get_content issues one request; it returns the decoded body of a 200
\* response and None for every other response.
C8_ContentOneRequest ==
    (op = "content" /\ Finished) =>
        /\ Len(Gets) = 1
        /\ Returned
        /\ result = IF Gets[1].resp.status = 200
                    THEN JsonResult(Gets[1].resp.data)
                    ELSE NoneResult

\* the same, for the calls that return
ContentWhenReturned ==
    (op = "content" /\ Returned) =>
        /\ Len(Gets) = 1
        /\ result = IF Gets[1].resp.status = 200
                    THEN JsonResult(Gets[1].resp.data)
                    ELSE NoneResult

---------------------------------------------------------------------------
(* C9 *)

IsRateSleep(e) == e.ev = "rate_sleep"

\* C9: a rate-limited get_content waits once, issues no second request and
\* returns None.
C9_ContentWaitsOnce ==
    (op = "content" /\ Finished /\ Throttled(Gets[1].resp)) =>
        /\ Len(SelectSeq(log, IsRateSleep)) = 1
        /\ Len(Gets) = 1
        /\ Returned
        /\ result = NoneResult

---------------------------------------------------------------------------
(* C10 *)

\* C10: in list_commits a 200 page with fewer than per_page items is the
\* last request: its items are added and the list is returned.
C10_ShortPageEndsCommits ==
    op = "commits" =>
        \A i \in GetAt :
            (log[i].resp.status = 200 /\ Len(log[i].resp.data) < per_page)
                => /\ i = Len(log)
                   /\ Returned
                   /\ result = ListResult(ItemsOf(Gets))

\* a full page, then a short page that is not empty
C10_Witness ==
    /\ op = "commits" /\ Returned
    /\ Len(Gets) = 2
    /\ Len(Gets[1].resp.data) >= per_page
    /\ Gets[2].resp.status = 200
    /\ Len(Gets[2].resp.data) = 1
    /\ per_page = 2
    /\ Len(result.val) >= 3

---------------------------------------------------------------------------
(* C11 *)

\* the first response of the search is a 200 that reports total_count 0
FirstTotalZero ==
    /\ op = "search"
    /\ Len(Gets) >= 1
    /\ Gets[1].resp.status = 200
    /\ Gets[1].resp.total = 0

\* C11 as stated: when the first search response is a 200 with total_count
\* 0, one request is issued and the empty list is returned, whatever the
\* items of that response.
C11_TotalZeroReturnsEmpty ==
    FirstTotalZero =>
        /\ Len(Gets) = 1
        /\ Returned => result = ListResult(<<>>)

\* C11 as amended: when the first search response is a 200 with total_count
\* 0, one request is issued and the list returned is the first max_repos
\* items of that response; it is empty when the response holds no items.
C11_TotalZeroOneRequest ==
    FirstTotalZero =>
        /\ Len(Gets) = 1
        /\ pc \in {"search_loop", "done"}
        /\ Returned =>
              /\ result = ListResult(FirstN(Gets[1].resp.data, max_repos))
              /\ Gets[1].resp.data = <<>> => result = ListResult(<<>>)

\* total_count 0 with two items in the response, max_repos 1: one request,
\* one item returned
C11_Witness ==
    /\ FirstTotalZero /\ Returned
    /\ Len(Gets[1].resp.data) = 2
    /\ max_repos = 1
    /\ Len(result.val) = 1

---------------------------------------------------------------------------
(* C12 *)

Max(a, b) == IF a >= b THEN a ELSE b

\* the X-RateLimit-Reset of a response, or the current time without it
ResetEpoch(resp) == IF resp.reset = NoHeader THEN Now ELSE resp.reset

\* C12: a rate limit makes _handle_rate_limit sleep
\* max(0, reset - now) + 1 seconds, at least 1 second and never a negative
\* time, for a reset in the past too; the sleep ends and the call goes on
\* (no exception is raised in its place).
C12_WaitIsAtLeastOneSecond ==
    \A i \in GetAt :
        Throttled(log[i].resp) =>
            /\ i < Len(log)
            /\ log[i + 1].ev = "rate_sleep"
            /\ log[i + 1].secs = Max(0, ResetEpoch(log[i].resp) - Now) + 1
            /\ log[i + 1].secs >= 1

\* the same, for a reset that is not in the past
WaitWhenResetNotPast ==
    \A i \in GetAt :
        (Throttled(log[i].resp) /\ ResetEpoch(log[i].resp) >= Now) =>
            /\ i < Len(log)
            /\ log[i + 1].ev = "rate_sleep"
            /\ log[i + 1].secs = Max(0, ResetEpoch(log[i].resp) - Now) + 1

---------------------------------------------------------------------------
(* C13 *)

\* _handle_rate_limit slept on the response at position i of the log
SleptOn(i) == i < Len(log) /\ log[i + 1].ev = "rate_sleep"

\* C13: _handle_rate_limit sleeps if and only if the response is a 403 that
\* carries X-RateLimit-Remaining with the value 0.
C13_WaitsIffThrottled ==
    \A i \in GetAt :
        SleptOn(i) <=> (/\ log[i].resp.status = 403
                        /\ log[i].resp.remaining # NoHeader
                        /\ log[i].resp.remaining = 0)

\* no sleep of the handler without a rate limit
SleepsOnlyWhenThrottled ==
    \A i \in GetAt :
        SleptOn(i) => (/\ log[i].resp.status = 403
                       /\ log[i].resp.remaining # NoHeader
                       /\ log[i].resp.remaining = 0)

---------------------------------------------------------------------------
(* C14 *)

\* a delay sleep lies between positions i and j of the log
DelayBetween(i, j) ==
    \E m \in 1..Len(log) : i < m /\ m < j /\ log[m].ev = "delay_sleep"

\* C14: in search_repositories the client sleeps for the delay after every
\* status-200 page and before the next request.
C14_DelayAfterEveryPage ==
    op = "search" =>
        \A i \in GetAt :
            (log[i].resp.status = 200 /\ NextGet(i) # 0)
                => DelayBetween(i, NextGet(i))

\* the same, for the pages after the first
DelayAfterLaterPages ==
    op = "search" =>
        \A i \in GetAt :
            (log[i].resp.status = 200 /\ log[i].page >= 2)
                => (i < Len(log) /\ log[i + 1] = SleepEvent("delay_sleep", delay))

---------------------------------------------------------------------------
(* C15 *)

\* N = max(1, ceil(min(total_count, max_repos) / per_page)), total_count
\* read from the first response (0 when it carries none)
PagesAllowed ==
    LET first == Gets[1].resp
        tc == IF first.total = NoHeader THEN 0 ELSE first.total
        m == IF tc <= max_repos THEN tc ELSE max_repos
        c == IF m % per_page = 0 THEN m \div per_page ELSE (m \div per_page) + 1
    IN  IF c >= 1 THEN c ELSE 1

SearchRunning == pc \in {"search_first", "search_loop"}

\* C15: search_repositories requests only pages 1..N, in strictly
\* increasing order, each at most once, so at most N requests; a running
\* search always has a next step, so it ends after at most N requests.
C15_SearchPagesBounded ==
    op = "search" =>
        /\ \A k \in 1..Len(Gets) : Gets[k].page \in 1..PagesAllowed
        /\ \A k \in 1..(Len(Gets) - 1) : Gets[k].page < Gets[k + 1].page
        /\ Len(Gets) >= 1 => Len(Gets) <= PagesAllowed
        /\ SearchRunning => ENABLED (SearchFirst \/ SearchPage \/ SearchReturn)
        /\ pc = "search_loop" => page = Gets[Len(Gets)].page + 1

\* a search that requested all its three pages
C15_Witness ==
    /\ op = "search" /\ Returned
    /\ Len(Gets) = 3
    /\ PagesAllowed = 3
    /\ Gets[3].page = 3

---------------------------------------------------------------------------
(* C16 *)

\* no response of the call holds more than per_page items
PagesWithinSize == \A i \in GetAt : Len(log[i].resp.data) <= per_page

\* the number of items aggregated when the request at position i was issued
AggregatedBefore(i) == Len(ItemsOf(GetsBefore(i)))

\* C16 as stated: no request is issued once max_repos items are aggregated,
\* so the aggregate exceeds max_repos by at most per_page - 1 items, and the
\* result holds exactly max_repos items whenever the aggregate is larger.
C16_OvershootBelowOnePage ==
    op = "search" =>
        /\ \A i \in GetAt : AggregatedBefore(i) < max_repos
        /\ PagesWithinSize => Len(all_results) <= max_repos + per_page - 1
        /\ (Returned /\ Len(all_results) > max_repos)
              => Len(result.val) = max_repos

\* C16 as amended: no request after the first is issued once max_repos
\* items are aggregated (the first is issued always), so the aggregate
\* exceeds max_repos by at most per_page - 1 items when max_repos >= 1 and
\* by at most per_page items when max_repos = 0; the result holds exactly
\* max_repos items whenever the aggregate is larger.
C16_OvershootAtMostOnePage ==
    op = "search" =>
        /\ \A i \in GetAt : log[i].page >= 2 => AggregatedBefore(i) < max_repos
        /\ (PagesWithinSize /\ max_repos >= 1)
              => Len(all_results) <= max_repos + per_page - 1
        /\ (PagesWithinSize /\ max_repos = 0) => Len(all_results) <= per_page
        /\ (Returned /\ Len(all_results) > max_repos)
              => Len(result.val) = max_repos

\* two pages of two items for max_repos 3: one item too many, three returned
C16_Witness ==
    /\ op = "search" /\ Returned /\ PagesWithinSize
    /\ per_page = 2 /\ max_repos = 3
    /\ Len(Gets) = 2
    /\ Len(all_results) = 4
    /\ Len(result.val) = 3

---------------------------------------------------------------------------
(* C17 *)

\* every request of the running call carried the client's two headers and
\* went to its base URL
RequestsCarryHeaders ==
    \A i \in GetAt :
        /\ log[i].headers = headers
        /\ log[i].url = base_url
        /\ DOMAIN log[i].headers = {"Authorization", "Accept"}
        /\ log[i].headers.Authorization[1] = "Bearer"
        /\ log[i].headers.Authorization[2] \in Tokens
        /\ log[i].headers.Accept = "application/vnd.github+json"

\* C17: no step of any operation changes the client's headers or base URL,
\* and every request carries exactly the two headers.
C17_CredentialImmutable ==
    /\ [](RequestsCarryHeaders)
    /\ [][headers' = headers /\ base_url' = base_url]_vars

\* a call that met a rate limit and went on to another request
C17_Witness ==
    /\ Len(Gets) >= 2
    /\ \E i \in GetAt : Throttled(log[i].resp)
    /\ headers = HeadersFor("tokenB")
    /\ Finished

---------------------------------------------------------------------------
(* C18 *)

\* a response that ends the listing: not a 200, or a 200 with fewer than
\* per_page items
EndsListing(resp) == resp.status # 200 \/ Len(resp.data) < per_page

\* C18: the k-th request of list_commits is for page k; the listing has
\* ended exactly when the last response is not a 200 or is a short 200, and
\* otherwise the next page is requested.
C18_CommitsPagesConsecutive ==
    op = "commits" =>
        /\ \A k \in 1..Len(Gets) : Gets[k].page = k
        /\ \A k \in 1..(Len(Gets) - 1) : ~EndsListing(Gets[k].resp)
        /\ Len(Gets) >= 1 => (Finished <=> EndsListing(Gets[Len(Gets)].resp))
        /\ Len(Gets) = 0 => ~Finished
        /\ pc = "commits_loop" =>
              /\ page = Len(Gets) + 1
              /\ page <= MaxPage => ENABLED CommitsPage

\* three full pages fetched and the listing still running
C18_Witness ==
    /\ op = "commits"
    /\ pc = "commits_loop"
    /\ Len(Gets) >= 3
    /\ per_page = 2

---------------------------------------------------------------------------
(* C19 *)

\* C19: when the first response of search_repositories is not a 200, the
\* call returns the empty list after that one request; it has slept in the
\* handler exactly when the response is a rate limit.
C19_FirstErrorReturnsEmpty ==
    (op = "search" /\ Len(Gets) >= 1 /\ Gets[1].resp.status # 200) =>
        /\ Len(Gets) = 1
        /\ Returned
        /\ result = ListResult(<<>>)
        /\ Len(SelectSeq(log, IsRateSleep)) =
              (IF Throttled(Gets[1].resp) THEN 1 ELSE 0)

\* the same, for the calls that return
FirstErrorWhenReturned ==
    (op = "search" /\ Returned /\ Gets[1].resp.status # 200) =>
        /\ Len(Gets) = 1
        /\ result = ListResult(<<>>)
        /\ Len(SelectSeq(log, IsRateSleep)) =
              (IF Throttled(Gets[1].resp) THEN 1 ELSE 0)

====
